---------------------------- MODULE Spec2Model ----------------------------
(***************************************************************************)
(* Model of the tenant-scoped inventory record store of src/q.py: the      *)
(* persisted JSON file, the in-memory collection of each running session,  *)
(* the displayed table with its filters, the edit popups and the delete    *)
(* operation.                                                              *)
(*                                                                         *)
(* A Python str is a sequence of one-character strings, so that lower(),   *)
(* strip(), the substring test, int() and the JSON text of the file are    *)
(* computed character by character.                                        *)
(***************************************************************************)
EXTENDS Integers, Sequences, FiniteSets, TLC

(***************************************************************************)
(* Python str operations                                                   *)
(***************************************************************************)
UpperCase == <<"A","B","C","D","E","F","G","H","I","J","K","L","M",
               "N","O","P","Q","R","S","T","U","V","W","X","Y","Z">>

LowerCase == <<"a","b","c","d","e","f","g","h","i","j","k","l","m",
               "n","o","p","q","r","s","t","u","v","w","x","y","z">>

Digits == <<"0","1","2","3","4","5","6","7","8","9">>

Whitespace == {" ", "\t", "\n", "\r", "\f"}

\* The position of every upper-case letter in UpperCase.
UpperIndex ==
    [c \in {UpperCase[i] : i \in DOMAIN UpperCase} |->
        CHOOSE i \in DOMAIN UpperCase : UpperCase[i] = c]

LowerChar(c) == IF c \in DOMAIN UpperIndex THEN LowerCase[UpperIndex[c]] ELSE c

\* str.lower()
lower(s) == [i \in 1..Len(s) |-> LowerChar(s[i])]

RECURSIVE lstrip(_)
lstrip(s) == IF s # <<>> /\ Head(s) \in Whitespace THEN lstrip(Tail(s)) ELSE s

RECURSIVE rstrip(_)
rstrip(s) ==
    IF s # <<>> /\ s[Len(s)] \in Whitespace
    THEN rstrip(SubSeq(s, 1, Len(s) - 1))
    ELSE s

\* str.strip()
strip(s) == rstrip(lstrip(s))

\* sub in s
contains(sub, s) ==
    \/ sub = <<>>
    \/ \E i \in 0..(Len(s) - Len(sub)) : SubSeq(s, i + 1, i + Len(sub)) = sub

\* sep.join(parts)
RECURSIVE join(_, _)
join(sep, parts) ==
    IF parts = <<>> THEN <<>>
    ELSE IF Len(parts) = 1 THEN parts[1]
    ELSE parts[1] \o sep \o join(sep, Tail(parts))

(***************************************************************************)
(* Python values held in a row: str, int and None.                         *)
(***************************************************************************)
PyStr(s) == [k |-> "str", s |-> s, n |-> 0]
PyInt(n) == [k |-> "int", s |-> <<>>, n |-> n]
PyNone == [k |-> "none", s |-> <<>>, n |-> 0]

IsDigit(c) == \E i \in DOMAIN Digits : Digits[i] = c
DigitVal(c) == (CHOOSE i \in DOMAIN Digits : Digits[i] = c) - 1

RECURSIVE NatToChars(_)
NatToChars(n) ==
    IF n < 10 THEN <<Digits[n + 1]>>
    ELSE NatToChars(n \div 10) \o <<Digits[(n % 10) + 1]>>

\* str(v)
str(v) ==
    CASE v.k = "str" -> v.s
      [] v.k = "int" -> IF v.n < 0 THEN <<"-">> \o NatToChars(-v.n)
                        ELSE NatToChars(v.n)
      [] OTHER -> <<"N","o","n","e">>

\* The digits of an int() literal: digits, single underscores between them.
IntDigitsOk(d) ==
    /\ d # <<>>
    /\ IsDigit(d[1])
    /\ IsDigit(d[Len(d)])
    /\ \A i \in 1..Len(d) :
          IsDigit(d[i]) \/ (d[i] = "_" /\ IsDigit(d[i - 1]) /\ IsDigit(d[i + 1]))

RECURSIVE DigitsValue(_, _)
DigitsValue(d, acc) ==
    IF d = <<>> THEN acc
    ELSE IF Head(d) = "_" THEN DigitsValue(Tail(d), acc)
    ELSE DigitsValue(Tail(d), 10 * acc + DigitVal(Head(d)))

\* int(s) of a str: surrounding whitespace, an optional sign, the digits.
\* ok = FALSE stands for ValueError.
int(s) ==
    LET t == strip(s)
        signed == t # <<>> /\ Head(t) \in {"+", "-"}
        d == IF signed THEN Tail(t) ELSE t
    IN  IF IntDigitsOk(d)
        THEN [ok |-> TRUE,
              n |-> IF signed /\ Head(t) = "-" THEN -DigitsValue(d, 0)
                    ELSE DigitsValue(d, 0)]
        ELSE [ok |-> FALSE, n |-> 0]

(***************************************************************************)
(* A row is a Python dict: a sequence of <<key, value>> pairs with        *)
(* distinct keys, in insertion order.                                      *)
(***************************************************************************)
HasKey(row, key) == \E i \in DOMAIN row : row[i][1] = key

\* row.get(key, default)
get(row, key, default) ==
    IF HasKey(row, key)
    THEN row[CHOOSE i \in DOMAIN row : row[i][1] = key][2]
    ELSE default

\* row[key] = val
setitem(row, key, val) ==
    IF HasKey(row, key)
    THEN [i \in DOMAIN row |-> IF row[i][1] = key THEN <<key, val>> ELSE row[i]]
    ELSE Append(row, <<key, val>>)

\* list(row.keys())
keys(row) == [i \in DOMAIN row |-> row[i][1]]

(***************************************************************************)
(* Program constants (src/q.py lines 10-14, 122)                           *)
(***************************************************************************)
LAST_UPDATED_FIELD == <<"L","a","s","t"," ","U","p","d","a","t","e","d">>
TENANT_FIELD == <<"T","e","n","a","n","t">>
PROJECT_FIELD == <<"P","r","o","j","e","c","t">>
ADMIN == <<"a","d","m","i","n","i","s","t","r","a","t","o","r">>
ITEM_FIELD == <<"I","t","e","m">>
QUANTITY_FIELD == <<"Q","u","a","n","t","i","t","y">>
DESCRIPTION_FIELD == <<"D","e","s","c","r","i","p","t","i","o","n">>

\* The columns of an empty collection.
DefaultColumns ==
    <<ITEM_FIELD, QUANTITY_FIELD, DESCRIPTION_FIELD,
      PROJECT_FIELD, TENANT_FIELD, LAST_UPDATED_FIELD>>

(***************************************************************************)
(* datetime.now().strftime("%Y-%m-%d %H:%M:%S"): the clock counts the      *)
(* seconds since 2000-01-01 00:00:00 and stays within the first hour.      *)
(***************************************************************************)
TwoDigits(n) == <<Digits[(n \div 10) + 1], Digits[(n % 10) + 1]>>

strftime(now) ==
    <<"2","0","0","0","-","0","1","-","0","1"," ","0","0",":">> \o TwoDigits(now \div 60)
        \o <<":">> \o TwoDigits(now % 60)

\* The clock reading a well-formed stamp was taken at; -1 for any other value.
StampTime(v) ==
    IF /\ v.k = "str"
       /\ Len(v.s) = 19
       /\ \A i \in {15, 16, 18, 19} : IsDigit(v.s[i])
    THEN LET m == (DigitVal(v.s[15]) * 10 + DigitVal(v.s[16])) * 60
                  + DigitVal(v.s[18]) * 10 + DigitVal(v.s[19])
         IN  IF DigitVal(v.s[18]) < 6 /\ strftime(m) = v.s THEN m ELSE -1
    ELSE -1

(***************************************************************************)
(* json.dumps / json.dump(indent=2) / json.load on the values of the model *)
(* (a list of dicts of str, int and None).                                 *)
(***************************************************************************)
\* A dump that writes every character of a string as it is.
JsonEscapeCharRaw(c) == <<c>>

\* py_encode_basestring_ascii, one character.
JsonEscapeChar(c) ==
    CASE c = "\"" -> <<"\\", "\"">>
      [] c = "\\" -> <<"\\", "\\">>
      [] c = "\n" -> <<"\\", "n">>
      [] c = "\r" -> <<"\\", "r">>
      [] c = "\t" -> <<"\\", "t">>
      [] c = "\f" -> <<"\\", "f">>
      [] OTHER -> <<c>>

RECURSIVE JsonEscape(_)
JsonEscape(s) ==
    IF \A i \in DOMAIN s : s[i] \notin {"\"", "\\", "\n", "\r", "\t", "\f"} THEN s
    ELSE JsonEscapeChar(Head(s)) \o JsonEscape(Tail(s))

JsonString(s) == <<"\"">> \o JsonEscape(s) \o <<"\"">>

JsonScalar(v) ==
    CASE v.k = "str" -> JsonString(v.s)
      [] v.k = "int" -> str(v)
      [] OTHER -> <<"n","u","l","l">>

JsonPair(kv) == JsonString(kv[1]) \o <<":", " ">> \o JsonScalar(kv[2])

\* json.dumps(row): separators ", " and ": ".
json_dumps(row) ==
    <<"{">> \o join(<<",", " ">>, [i \in DOMAIN row |-> JsonPair(row[i])]) \o <<"}">>

\* A dict at nesting level 1 of json.dump(data, f, indent=2).
JsonDictIndented(row) ==
    IF row = <<>> THEN <<"{", "}">>
    ELSE <<"{", "\n", " ", " ", " ", " ">>
         \o join(<<",", "\n", " ", " ", " ", " ">>,
                 [i \in DOMAIN row |-> JsonPair(row[i])])
         \o <<"\n", " ", " ", "}">>

\* The text json.dump(data, f, indent=2) writes.
json_dump(data) ==
    IF data = <<>> THEN <<"[", "]">>
    ELSE <<"[", "\n", " ", " ">>
         \o join(<<",", "\n", " ", " ">>,
                 [i \in DOMAIN data |-> JsonDictIndented(data[i])])
         \o <<"\n", "]">>

JsonWs == {" ", "\t", "\n", "\r"}

JsonFail == [ok |-> FALSE, v |-> <<>>, i |-> 0]

RECURSIVE SkipWs(_, _)
SkipWs(t, i) == IF i <= Len(t) /\ t[i] \in JsonWs THEN SkipWs(t, i + 1) ELSE i

JsonUnescapeChar(c) ==
    CASE c = "n" -> "\n"
      [] c = "r" -> "\r"
      [] c = "t" -> "\t"
      [] c = "f" -> "\f"
      [] OTHER -> c

\* The characters of a JSON string whose opening quote precedes position i.
RECURSIVE ScanString(_, _, _)
ScanString(t, i, acc) ==
    IF i > Len(t) \/ t[i] \in {"\n", "\r", "\t", "\f"} THEN JsonFail
    ELSE IF t[i] = "\"" THEN [ok |-> TRUE, v |-> acc, i |-> i + 1]
    ELSE IF t[i] = "\\"
         THEN IF i + 1 <= Len(t) /\ t[i + 1] \in {"\"", "\\", "/", "n", "r", "t", "f"}
              THEN ScanString(t, i + 2, Append(acc, JsonUnescapeChar(t[i + 1])))
              ELSE JsonFail
    ELSE ScanString(t, i + 1, Append(acc, t[i]))

RECURSIVE ScanDigits(_, _)
ScanDigits(t, i) == IF i <= Len(t) /\ IsDigit(t[i]) THEN ScanDigits(t, i + 1) ELSE i

\* -?(0|[1-9][0-9]*), not followed by a fraction or an exponent: the digits
\* are t[b..e-1].
ScanNumberEnd(t, neg, b, e) ==
    IF \/ e = b
       \/ (t[b] = "0" /\ e > b + 1)
       \/ (e <= Len(t) /\ t[e] \in {".", "e", "E"})
    THEN JsonFail
    ELSE [ok |-> TRUE,
          v |-> PyInt(IF neg THEN -DigitsValue(SubSeq(t, b, e - 1), 0)
                      ELSE DigitsValue(SubSeq(t, b, e - 1), 0)),
          i |-> e]

ScanNumberBody(t, neg, b) == ScanNumberEnd(t, neg, b, ScanDigits(t, b))

ScanNumber(t, i) ==
    IF i <= Len(t) /\ t[i] = "-" THEN ScanNumberBody(t, TRUE, i + 1)
    ELSE ScanNumberBody(t, FALSE, i)

StrResult(r) == IF r.ok THEN [r EXCEPT !.v = PyStr(r.v)] ELSE JsonFail

ScanScalar(t, i) ==
    IF i > Len(t) THEN JsonFail
    ELSE IF t[i] = "\"" THEN StrResult(ScanString(t, i + 1, <<>>))
    ELSE IF i + 3 <= Len(t) /\ SubSeq(t, i, i + 3) = <<"n","u","l","l">>
         THEN [ok |-> TRUE, v |-> PyNone, i |-> i + 4]
    ELSE ScanNumber(t, i)

\* The pairs of an object from position i (at a key) on, added to row: the
\* key, the colon, the value, then "}" or "," and the next pair.
RECURSIVE ScanPairs(_, _, _)

PairEnd(t, e, row) ==
    IF e > Len(t) THEN JsonFail
    ELSE IF t[e] = "}" THEN [ok |-> TRUE, v |-> row, i |-> e + 1]
    ELSE IF t[e] = "," THEN ScanPairs(t, SkipWs(t, e + 1), row)
    ELSE JsonFail

PairValue(t, key, val, row) ==
    IF ~val.ok THEN JsonFail
    ELSE PairEnd(t, SkipWs(t, val.i), setitem(row, key, val.v))

PairColon(t, key, c, row) ==
    IF c > Len(t) \/ t[c] # ":" THEN JsonFail
    ELSE PairValue(t, key, ScanScalar(t, SkipWs(t, c + 1)), row)

PairKey(t, key, row) ==
    IF ~key.ok THEN JsonFail ELSE PairColon(t, key.v, SkipWs(t, key.i), row)

ScanPairs(t, i, row) ==
    IF i > Len(t) \/ t[i] # "\"" THEN JsonFail
    ELSE PairKey(t, ScanString(t, i + 1, <<>>), row)

ScanObjectBody(t, b) ==
    IF b <= Len(t) /\ t[b] = "}" THEN [ok |-> TRUE, v |-> <<>>, i |-> b + 1]
    ELSE ScanPairs(t, b, <<>>)

ScanObject(t, i) ==
    IF i > Len(t) \/ t[i] # "{" THEN JsonFail
    ELSE ScanObjectBody(t, SkipWs(t, i + 1))

\* The objects of an array from position i (at an object) on, added to data.
RECURSIVE ScanObjects(_, _, _)

ObjectEnd(t, e, data) ==
    IF e > Len(t) THEN JsonFail
    ELSE IF t[e] = "]" THEN [ok |-> TRUE, v |-> data, i |-> e + 1]
    ELSE IF t[e] = "," THEN ScanObjects(t, SkipWs(t, e + 1), data)
    ELSE JsonFail

ObjectDone(t, obj, data) ==
    IF ~obj.ok THEN JsonFail
    ELSE ObjectEnd(t, SkipWs(t, obj.i), Append(data, obj.v))

ScanObjects(t, i, data) == ObjectDone(t, ScanObject(t, i), data)

ScanArrayBody(t, b) ==
    IF b <= Len(t) /\ t[b] = "]" THEN [ok |-> TRUE, v |-> <<>>, i |-> b + 1]
    ELSE ScanObjects(t, b, <<>>)

ScanArray(t, i) ==
    IF i > Len(t) \/ t[i] # "[" THEN JsonFail
    ELSE ScanArrayBody(t, SkipWs(t, i + 1))

DocumentEnd(t, arr) ==
    IF arr.ok /\ SkipWs(t, arr.i) = Len(t) + 1 THEN arr ELSE JsonFail

\* json.load(f) of the text t; ok = FALSE stands for JSONDecodeError.
json_load(t) == DocumentEnd(t, ScanArray(t, SkipWs(t, 1)))

(***************************************************************************)
(* Bounds of the model                                                     *)
(***************************************************************************)
\* Save and delete operations in one run.
MaxOps == 2
\* Edit popups open at once in one session.
MaxPopups == 1
\* Last clock reading.
MaxClock == 2

Sessions == {1, 2}

\* Principals: the administrator and the tenants a and b.
TenantA == <<"a">>
TenantB == <<"b">>

\* The outcomes of git_commit: no .git directory; git ran and committed; git
\* ran and exited non-zero; .git exists but the git executable cannot be
\* started (subprocess.run raises FileNotFoundError).
SnapOutcomes == {"no_repo", "committed", "git_failed", "not_runnable"}

VARIABLES
    clock,          \* datetime.now(), in seconds
    file,           \* DATA_FILE: [exists, data], its text being json_dump(data)
    running,        \* the sessions (processes) that were started
    current_user,   \* per session: the principal entered at login
    full_data,      \* per session: self.full_data
    columns,        \* per session: self.columns
    tree,           \* per session: the item values of self.tree, top to bottom
    search_var,     \* per session: the free-text box
    tenant_filter,  \* per session: the tenant combobox
    project_filter, \* per session: the project combobox
    popups,         \* per session: the open entry windows
    hwm,            \* per session: the latest stamp the run has written, or -1
    ops,            \* the save and delete operations so far
    ev              \* the operation that produced this state

vars == <<clock, file, running, current_user, full_data, columns, tree,
          search_var, tenant_filter, project_filter, popups, hwm, ops, ev>>

(***************************************************************************)
(* The functions of src/q.py                                               *)
(***************************************************************************)
\* [row.get(col, "") for col in self.columns]
RowValues(row, cols) == [i \in DOMAIN cols |-> get(row, cols[i], PyStr(<<>>))]

\* What self.tree.item(i)["values"] returns for a value put into the tree:
\* Tcl holds its text, and ttk turns every text that int() accepts into an int.
convert_stringval(v) ==
    LET r == int(str(v)) IN IF r.ok THEN PyInt(r.n) ELSE PyStr(str(v))

ItemValues(values) == [i \in DOMAIN values |-> convert_stringval(values[i])]

\* Authorized without the ownership test: every principal passes.
AuthorizedAnyone(row, user) == TRUE

\* current_user == ADMIN or row.get(TENANT_FIELD) == current_user
Authorized(row, user) ==
    user = ADMIN \/ get(row, TENANT_FIELD, PyNone) = PyStr(user)

\* git_commit(file_path, message): TRUE when it returns, FALSE when it raises.
git_commit(outcome) == outcome # "not_runnable"

\* The text of DATA_FILE: what json.dump(data, f, indent=2) wrote into it.
FileText(f) == json_dump(f.data)

\* save_data with the file opened for writing and nothing dumped into it.
save_dataTruncating(data, outcome) ==
    [file |-> [exists |-> TRUE, data |-> <<>>], returned |-> git_commit(outcome)]

\* save_data(data): the file it leaves, and whether it returns.
save_data(data, outcome) ==
    [file |-> [exists |-> TRUE, data |-> data], returned |-> git_commit(outcome)]

\* The rows of initialize_from_excel: each stamped, each given a Tenant.
RECURSIVE ExcelRows(_, _, _)
ExcelRows(rows, user, now) ==
    IF rows = <<>> THEN <<>>
    ELSE LET stamped == setitem(Head(rows), LAST_UPDATED_FIELD, PyStr(strftime(now)))
             dflt == IF user # ADMIN THEN PyStr(user) ELSE PyStr(<<>>)
         IN  <<setitem(stamped, TENANT_FIELD, get(stamped, TENANT_FIELD, dflt))>>
             \o ExcelRows(Tail(rows), user, now)

\* initialize_from_excel(): sheet is the chosen sheet's rows, picked = FALSE
\* when the file dialog was cancelled.
initialize_from_excel(f, picked, sheet, user, now) ==
    IF picked
    THEN [data |-> ExcelRows(sheet, user, now),
          file |-> save_data(ExcelRows(sheet, user, now), "no_repo").file]
    ELSE [data |-> <<>>, file |-> f]

\* load_data()
load_data(f, picked, sheet, user, now) ==
    IF ~f.exists THEN initialize_from_excel(f, picked, sheet, user, now)
    ELSE [data |-> json_load(FileText(f)).v, file |-> f]

\* get_filtered_data()
get_filtered_data(all_data, user) ==
    IF user = ADMIN THEN all_data
    ELSE SelectSeq(all_data, LAMBDA row : get(row, TENANT_FIELD, PyNone) = PyStr(user))

\* The test of refresh_table on one row.
RowShown(row, user, search, tenant, project) ==
    LET query == lower(search)
        tenant_query == lower(strip(tenant))
        project_query == lower(strip(project))
        row_str == lower(json_dumps(row))
        tenant_match ==
            \/ /\ user = ADMIN
               /\ \/ tenant_query = <<>>
                  \/ lower(get(row, TENANT_FIELD, PyStr(<<>>)).s) = tenant_query
            \/ get(row, TENANT_FIELD, PyNone) = PyStr(user)
        project_match ==
            contains(project_query, lower(get(row, PROJECT_FIELD, PyStr(<<>>)).s))
    IN  contains(query, row_str) /\ tenant_match /\ project_match

\* refresh_table(): the item values of the tree it rebuilds.
RECURSIVE refresh_table(_, _, _, _, _, _)
refresh_table(data, cols, user, search, tenant, project) ==
    IF data = <<>> THEN <<>>
    ELSE (IF RowShown(Head(data), user, search, tenant, project)
          THEN <<ItemValues(RowValues(Head(data), cols))>>
          ELSE <<>>)
         \o refresh_table(Tail(data), cols, user, search, tenant, project)

\* entry_data after the first lines of save(): the typed text of every column,
\* then the stamp, then for a tenant the forced Tenant.
RECURSIVE TypedFields(_, _, _)
TypedFields(cols, typed, row) ==
    IF cols = <<>> THEN row
    ELSE TypedFields(Tail(cols), Tail(typed), setitem(row, Head(cols), PyStr(Head(typed))))

\* EntryData without the line that forces the Tenant of a tenant's record.
EntryDataTenantAsTyped(cols, typed, user, now) ==
    setitem(TypedFields(cols, typed, <<>>), LAST_UPDATED_FIELD, PyStr(strftime(now)))

\* EntryData with the stamp set before the typed fields are copied, so that a
\* typed Last Updated overwrites it.
EntryDataStampFirst(cols, typed, user, now) ==
    LET filled == TypedFields(cols, typed,
                              <<<<LAST_UPDATED_FIELD, PyStr(strftime(now))>>>>)
    IN  IF user # ADMIN THEN setitem(filled, TENANT_FIELD, PyStr(user)) ELSE filled

EntryData(cols, typed, user, now) ==
    LET stamped == setitem(TypedFields(cols, typed, <<>>),
                           LAST_UPDATED_FIELD, PyStr(strftime(now)))
    IN  IF user # ADMIN THEN setitem(stamped, TENANT_FIELD, PyStr(user)) ELSE stamped

\* The row the for loop of save() breaks at: the first whose values equal
\* existing_entry; 0 when the loop runs to its else.
MatchIndex(data, cols, existing) ==
    IF existing # <<>> /\ \E i \in DOMAIN data : RowValues(data[i], cols) = existing
    THEN CHOOSE i \in DOMAIN data :
            /\ RowValues(data[i], cols) = existing
            /\ \A j \in 1..(i - 1) : RowValues(data[j], cols) # existing
    ELSE 0

\* self.full_data after the loop of save().  entry_data is one dict object:
\* the rows at `alias` are that object (put there by an earlier save() of the
\* same window that did not get to popup.destroy()), so they change with it.
SaveLoop(data, cols, existing, entry, alias, user) ==
    LET aliased == [i \in DOMAIN data |-> IF i \in alias THEN entry ELSE data[i]]
        m == MatchIndex(aliased, cols, existing)
    IN  IF m = 0
        THEN [data |-> Append(aliased, entry), match |-> 0, auth |-> TRUE,
              alias |-> alias \cup {Len(data) + 1}]
        ELSE IF Authorized(aliased[m], user)
        THEN [data |-> [aliased EXCEPT ![m] = entry], match |-> m, auth |-> TRUE,
              alias |-> alias \cup {m}]
        ELSE [data |-> aliased, match |-> m, auth |-> FALSE, alias |-> alias]

\* new_data of a delete_entry() that stops removing after the first removal.
RECURSIVE DeleteLoopFirstOnly(_, _, _, _)
DeleteLoopFirstOnly(data, cols, values_to_delete, user) ==
    IF data = <<>> THEN <<>>
    ELSE IF /\ RowValues(Head(data), cols) \in values_to_delete
            /\ (user = ADMIN \/ get(Head(data), TENANT_FIELD, PyNone) = PyStr(user))
         THEN Tail(data)
         ELSE <<Head(data)>>
              \o DeleteLoopFirstOnly(Tail(data), cols, values_to_delete, user)

\* new_data of delete_entry().
RECURSIVE DeleteLoop(_, _, _, _)
DeleteLoop(data, cols, values_to_delete, user) ==
    IF data = <<>> THEN <<>>
    ELSE (IF /\ RowValues(Head(data), cols) \in values_to_delete
             /\ Authorized(Head(data), user)
          THEN <<>>
          ELSE <<Head(data)>>)
         \o DeleteLoop(Tail(data), cols, values_to_delete, user)

\* Where the dict objects at `alias` are after delete_entry() rebuilt the list.
AliasAfterDelete(data, cols, values_to_delete, user, alias) ==
    LET kept(i) == ~(/\ RowValues(data[i], cols) \in values_to_delete
                     /\ Authorized(data[i], user))
    IN  {Cardinality({j \in 1..i : kept(j)}) : i \in {a \in alias : kept(a)}}

(***************************************************************************)
(* The inputs of the model: the data files and spreadsheets a session may  *)
(* start from, and what the user types.  In every row Tenant and Project   *)
(* are str (refresh_table calls .lower() on them).                         *)
(***************************************************************************)
\* First clock reading.
StartClock == 1

ValX == PyStr(<<"x">>)
PastStamp == PyStr(strftime(0))
\* A stamp written where the clock was ahead of this machine's.
FutureStamp == PyStr(strftime(59))

\* Two rows equal field for field.
StoreDuplicates ==
    << << <<ITEM_FIELD, ValX>>, <<TENANT_FIELD, PyStr(TenantA)>>,
          <<LAST_UPDATED_FIELD, PastStamp>> >>,
       << <<ITEM_FIELD, ValX>>, <<TENANT_FIELD, PyStr(TenantA)>>,
          <<LAST_UPDATED_FIELD, PastStamp>> >> >>

\* Rows of two tenants, an int value, stamps of another clock.
StoreTwoTenants ==
    << << <<ITEM_FIELD, PyInt(7)>>, <<TENANT_FIELD, PyStr(TenantB)>>,
          <<LAST_UPDATED_FIELD, FutureStamp>> >>,
       << <<ITEM_FIELD, ValX>>, <<TENANT_FIELD, PyStr(TenantA)>>,
          <<LAST_UPDATED_FIELD, FutureStamp>> >> >>

\* The first row has no Tenant key, so Tenant is no column of the table.
StoreNoTenantColumn ==
    << << <<ITEM_FIELD, ValX>>, <<LAST_UPDATED_FIELD, PastStamp>> >>,
       << <<ITEM_FIELD, ValX>>, <<LAST_UPDATED_FIELD, PastStamp>>,
          <<TENANT_FIELD, PyStr(TenantA)>> >> >>

\* Projects, a row of the administrator, a tenant spelled in upper case.
StoreProjects ==
    << << <<ITEM_FIELD, ValX>>, <<PROJECT_FIELD, PyStr(<<"P","1">>)>>,
          <<TENANT_FIELD, PyStr(ADMIN)>>, <<LAST_UPDATED_FIELD, PastStamp>> >>,
       << <<ITEM_FIELD, ValX>>, <<PROJECT_FIELD, PyStr(<<"q">>)>>,
          <<TENANT_FIELD, PyStr(<<"A">>)>>, <<LAST_UPDATED_FIELD, PastStamp>> >> >>

InitialStores ==
    {StoreDuplicates, StoreTwoTenants, StoreNoTenantColumn, StoreProjects}

\* The spreadsheet of the initial import: one row, no Tenant column.
ExcelSheet == << << <<ITEM_FIELD, PyInt(7)>> >> >>

Users == {ADMIN, TenantA}

SearchChoices == {<<>>, <<"X">>}
TenantFilterChoices == {<<>>, <<" ","A">>}
ProjectFilterChoices == {<<>>, <<"P">>}

\* What the user may type into a field instead of leaving it as seeded.
AltTyped(col) ==
    CASE col = ITEM_FIELD -> {<<"\"">>}
      [] col = TENANT_FIELD -> {TenantB}
      [] OTHER -> {}

\* tk.StringVar(value=existing_entry[...] if existing_entry else "")
Seeds(cols, existing) ==
    [i \in DOMAIN cols |-> IF existing = <<>> THEN <<>> ELSE str(existing[i])]

RECURSIVE TypedChoices(_, _)
TypedChoices(cols, seeds) ==
    IF cols = <<>> THEN {<<>>}
    ELSE {<<h>> \o t : h \in {Head(seeds)} \cup AltTyped(Head(cols)),
                       t \in TypedChoices(Tail(cols), Tail(seeds))}

(***************************************************************************)
(* Construction: InventoryApp.__init__ of every started session, all on    *)
(* the same file at the same time.                                         *)
(***************************************************************************)
NoEv ==
    [kind |-> "none", s |-> 0, existing |-> <<>>, typed |-> <<>>, old |-> <<>>,
     match |-> 0, auth |-> FALSE, snap |-> "none", targets |-> {}]

RemoveAt(seq, p) == SubSeq(seq, 1, p - 1) \o SubSeq(seq, p + 1, Len(seq))

Max(a, b) == IF a >= b THEN a ELSE b

\* The file and self.full_data after the two load_data() calls of __init__
\* (one in get_filtered_data, one for self.full_data).
Constructed(f, picked1, picked2, user, now) ==
    LET first == load_data(f, picked1, ExcelSheet, user, now)
    IN  load_data(first.file, picked2, ExcelSheet, user, now)

InitWith(started, f0, picked1, picked2, users) ==
    LET c == Constructed(f0, picked1, picked2, users[1], StartClock)
        data == [s \in Sessions |-> IF s \in started THEN c.data ELSE <<>>]
        cols == [s \in Sessions |->
                    IF data[s] # <<>> THEN keys(data[s][1]) ELSE DefaultColumns]
    IN  /\ clock = StartClock
        /\ file = c.file
        /\ running = started
        /\ current_user = users
        /\ full_data = data
        /\ columns = cols
        /\ search_var = [s \in Sessions |-> <<>>]
        /\ tenant_filter =
              [s \in Sessions |-> IF users[s] # ADMIN THEN users[s] ELSE <<>>]
        /\ project_filter = [s \in Sessions |-> <<>>]
        /\ tree = [s \in Sessions |->
                     IF s \in started
                     THEN refresh_table(data[s], cols[s], users[s], <<>>,
                                        IF users[s] # ADMIN THEN users[s] ELSE <<>>,
                                        <<>>)
                     ELSE <<>>]
        /\ popups = [s \in Sessions |-> <<>>]
        /\ hwm = [s \in Sessions |->
                    IF s \in started /\ ~f0.exists /\ c.file.exists
                    THEN StartClock ELSE -1]
        /\ ops = 0
        /\ ev = NoEv

InitialFiles ==
    {[exists |-> FALSE, data |-> <<>>]}
    \cup {[exists |-> TRUE, data |-> d] : d \in InitialStores}

\* One session.
Init ==
    \E f0 \in InitialFiles, picked1, picked2 \in BOOLEAN, u \in Users :
        /\ f0.exists => json_load(FileText(f0)).ok
        /\ InitWith({1}, f0, picked1, picked2, [s \in Sessions |-> u])

(***************************************************************************)
(* The operations of a session                                             *)
(***************************************************************************)
Refreshed(s, data, search) ==
    refresh_table(data, columns[s], current_user[s], search,
                  tenant_filter[s], project_filter[s])

\* Time passes.
Tick ==
    /\ clock < MaxClock
    /\ clock' = clock + 1
    /\ ev' = NoEv
    /\ UNCHANGED <<file, running, current_user, full_data, columns, tree,
                   search_var, tenant_filter, project_filter, popups, hwm, ops>>

\* A write to the search box: its trace runs refresh_table().
SetSearch(s, q) ==
    /\ s \in running
    /\ search_var' = [search_var EXCEPT ![s] = q]
    /\ tree' = [tree EXCEPT ![s] = Refreshed(s, full_data[s], q)]
    /\ ev' = [NoEv EXCEPT !.kind = "refresh", !.s = s]
    /\ UNCHANGED <<clock, file, running, current_user, full_data, columns,
                   tenant_filter, project_filter, popups, hwm, ops>>

\* The tenant combobox exists for the administrator only; no trace is set on
\* its variable, so the table is not rebuilt.
SetTenantFilter(s, t) ==
    /\ s \in running
    /\ current_user[s] = ADMIN
    /\ tenant_filter' = [tenant_filter EXCEPT ![s] = t]
    /\ ev' = NoEv
    /\ UNCHANGED <<clock, file, running, current_user, full_data, columns, tree,
                   search_var, project_filter, popups, hwm, ops>>

SetProjectFilter(s, p) ==
    /\ s \in running
    /\ project_filter' = [project_filter EXCEPT ![s] = p]
    /\ ev' = NoEv
    /\ UNCHANGED <<clock, file, running, current_user, full_data, columns, tree,
                   search_var, tenant_filter, popups, hwm, ops>>

\* add_or_edit_entry(): entry_window(None)
add_or_edit_entry(s) ==
    /\ s \in running
    /\ Len(popups[s]) < MaxPopups
    /\ popups' = [popups EXCEPT ![s] = Append(@, [existing |-> <<>>, alias |-> {}])]
    /\ ev' = NoEv
    /\ UNCHANGED <<clock, file, running, current_user, full_data, columns, tree,
                   search_var, tenant_filter, project_filter, hwm, ops>>

\* edit_entry(event): a double click on the i-th item of the table.
edit_entry(s, i) ==
    /\ s \in running
    /\ i \in DOMAIN tree[s]
    /\ Len(popups[s]) < MaxPopups
    /\ popups' = [popups EXCEPT ![s] =
                     Append(@, [existing |-> tree[s][i], alias |-> {}])]
    /\ ev' = NoEv
    /\ UNCHANGED <<clock, file, running, current_user, full_data, columns, tree,
                   search_var, tenant_filter, project_filter, hwm, ops>>

\* The popup is closed without Save.
cancel(s, p) ==
    /\ s \in running
    /\ p \in DOMAIN popups[s]
    /\ popups' = [popups EXCEPT ![s] = RemoveAt(@, p)]
    /\ ev' = [NoEv EXCEPT !.kind = "cancel", !.s = s]
    /\ UNCHANGED <<clock, file, running, current_user, full_data, columns, tree,
                   search_var, tenant_filter, project_filter, hwm, ops>>

\* save() of the p-th open entry window, with `typed` in its fields.
save(s, p, typed) ==
    LET pop == popups[s][p]
        entry == EntryData(columns[s], typed, current_user[s], clock)
        r == SaveLoop(full_data[s], columns[s], pop.existing, entry, pop.alias,
                      current_user[s])
        shown == Refreshed(s, r.data, search_var[s])
        others == [q \in DOMAIN popups[s] |->
                     IF q # p /\ r.match # 0 /\ r.auth
                     THEN [popups[s][q] EXCEPT !.alias = @ \ {r.match}]
                     ELSE popups[s][q]]
    IN  /\ ops < MaxOps
        /\ ops' = ops + 1
        /\ full_data' = [full_data EXCEPT ![s] = r.data]
        /\ hwm' = [hwm EXCEPT ![s] = IF r.alias # {} THEN Max(@, clock) ELSE @]
        /\ \E outcome \in SnapOutcomes :
              LET sd == save_data(r.data, outcome)
              IN  /\ file' = sd.file
                  /\ ev' = [kind |-> "save", s |-> s, existing |-> pop.existing,
                            typed |-> typed,
                            old |-> IF r.match # 0 THEN full_data[s][r.match]
                                    ELSE <<>>,
                            match |-> r.match, auth |-> r.auth,
                            snap |-> outcome, targets |-> {}]
                  /\ IF sd.returned
                     THEN \* popup.destroy(); self.refresh_table()
                          /\ popups' = [popups EXCEPT ![s] = RemoveAt(others, p)]
                          /\ tree' = [tree EXCEPT ![s] = shown]
                     ELSE \* the exception leaves save(): Tk reports it, the
                          \* window stays open
                          /\ popups' = [popups EXCEPT ![s] =
                                           [others EXCEPT ![p].alias = r.alias]]
                          /\ UNCHANGED tree
        /\ UNCHANGED <<clock, running, current_user, columns, search_var,
                       tenant_filter, project_filter>>

Save(s) ==
    /\ s \in running
    /\ \E p \in DOMAIN popups[s] :
          \E typed \in TypedChoices(columns[s],
                                    Seeds(columns[s], popups[s][p].existing)) :
              save(s, p, typed)

\* delete_entry() with the items `selected` of the table selected.
delete_entry(s, selected) ==
    IF selected = {}
    THEN \* messagebox.showwarning("Delete", "No item selected")
         /\ ev' = NoEv
         /\ UNCHANGED <<clock, file, running, current_user, full_data, columns,
                        tree, search_var, tenant_filter, project_filter, popups,
                        hwm, ops>>
    ELSE LET values_to_delete == {tree[s][i] : i \in selected}
             new_data == DeleteLoop(full_data[s], columns[s], values_to_delete,
                                    current_user[s])
             shown == Refreshed(s, new_data, search_var[s])
         IN  /\ ops < MaxOps
             /\ ops' = ops + 1
             /\ full_data' = [full_data EXCEPT ![s] = new_data]
             /\ popups' = [popups EXCEPT ![s] =
                   [q \in DOMAIN @ |->
                      [@[q] EXCEPT !.alias =
                          AliasAfterDelete(full_data[s], columns[s],
                                           values_to_delete, current_user[s], @)]]]
             /\ \E outcome \in SnapOutcomes :
                   LET sd == save_data(new_data, outcome)
                   IN  /\ file' = sd.file
                       /\ ev' = [NoEv EXCEPT !.kind = "delete", !.s = s,
                                             !.snap = outcome,
                                             !.targets = values_to_delete]
                       /\ IF sd.returned
                          THEN tree' = [tree EXCEPT ![s] = shown]
                          ELSE UNCHANGED tree
             /\ UNCHANGED <<clock, running, current_user, columns, search_var,
                            tenant_filter, project_filter, hwm>>

Delete(s) ==
    /\ s \in running
    /\ \E selected \in SUBSET DOMAIN tree[s] : delete_entry(s, selected)

\* What the user does to the view of session s.
Browse(s) ==
    \/ \E q \in SearchChoices : SetSearch(s, q)
    \/ \E t \in TenantFilterChoices : SetTenantFilter(s, t)
    \/ \E p \in ProjectFilterChoices : SetProjectFilter(s, p)

\* What the user does to the collection of session s.
Edit(s) ==
    \/ add_or_edit_entry(s)
    \/ \E i \in DOMAIN tree[s] : edit_entry(s, i)
    \/ \E p \in DOMAIN popups[s] : cancel(s, p)
    \/ Save(s)
    \/ Delete(s)

(***************************************************************************)
(* Spec: one session edits the collection, its filters left as built.      *)
(***************************************************************************)
Next == Tick \/ Edit(1)

Spec == Init /\ [][Next]_vars

(***************************************************************************)
(* SpecView: one session searches, filters and deletes.                    *)
(***************************************************************************)
NextView == Browse(1) \/ Delete(1)

SpecView == Init /\ [][NextView]_vars

(***************************************************************************)
(* SpecConc: two sessions, the administrator and tenant a, started on the  *)
(* same file, each editing its own copy.                                   *)
(***************************************************************************)
InitConc ==
    \E f0 \in InitialFiles :
        /\ f0.exists
        /\ json_load(FileText(f0)).ok
        /\ InitWith({1, 2}, f0, FALSE, FALSE,
                    [s \in Sessions |-> IF s = 1 THEN ADMIN ELSE TenantA])

NextConc == Tick \/ Edit(1) \/ Edit(2)

SpecConc == InitConc /\ [][NextConc]_vars

(***************************************************************************)
(* The claims                                                              *)
(***************************************************************************)
Tenant(row) == get(row, TENANT_FIELD, PyNone)

\* The records of another tenant than u, in store order.
Foreign(data, u) == SelectSeq(data, LAMBDA row : Tenant(row) # PyStr(u))

\* The record a commit put into the store: at the matched row, or the last.
Written(data, e) == data[IF e.match # 0 THEN e.match ELSE Len(data)]

\* C1: whatever a non-administrator principal P commits or deletes, the
\* records whose Tenant differs from P stay in the store, field for field and
\* in the same relative order; only records with Tenant = P are created,
\* replaced or removed.
TenantIsolation ==
    [][\A s \in running :
          current_user[s] # ADMIN =>
              Foreign(full_data'[s], current_user[s])
                  = Foreign(full_data[s], current_user[s])]_vars

\* A tenant deleted a selection whose values are also those of a record of
\* another tenant, and that record is still in the store.
TenantIsolationWitness ==
    /\ ev.kind = "delete"
    /\ current_user[ev.s] # ADMIN
    /\ Len(full_data[ev.s]) = 1
    /\ \E i \in DOMAIN full_data[ev.s] :
          /\ Tenant(full_data[ev.s][i]) # PyStr(current_user[ev.s])
          /\ RowValues(full_data[ev.s][i], columns[ev.s]) \in ev.targets

\* C2: the record a commit of a non-administrator principal P writes,
\* replacing or appended, has Tenant = P whatever was typed into the Tenant
\* field; the administrator's record has the Tenant that was typed.
CommitForcesTenant ==
    [][(ev'.kind = "save" /\ ev'.auth) =>
          LET s == ev'.s
              row == Written(full_data'[s], ev')
          IN  IF current_user[s] # ADMIN
              THEN Tenant(row) = PyStr(current_user[s])
              ELSE \A i \in DOMAIN columns[s] :
                      columns[s][i] = TENANT_FIELD =>
                          Tenant(row) = PyStr(ev'.typed[i])]_vars

\* A tenant typed another tenant into the Tenant field and committed.
CommitForcesTenantWitness ==
    /\ ev.kind = "save"
    /\ ev.auth
    /\ current_user[ev.s] # ADMIN
    /\ \E i \in DOMAIN columns[ev.s] :
          /\ columns[ev.s][i] = TENANT_FIELD
          /\ ev.typed[i] = TenantB
    /\ Tenant(Written(full_data[ev.s], ev)) = PyStr(current_user[ev.s])

\* C3: an Editing commit whose identity equals the values of at least one
\* record, the first such record being one the principal is authorized for,
\* replaces exactly that record in place by the new record: the length and
\* every other record, any duplicate of the target included, are unchanged.
EditReplacesFirstMatchOnly ==
    [][(ev'.kind = "save" /\ ev'.existing # <<>>) =>
          LET s == ev'.s
              m == MatchIndex(full_data[s], columns[s], ev'.existing)
          IN  (m # 0 /\ Authorized(full_data[s][m], current_user[s])) =>
                  /\ Len(full_data'[s]) = Len(full_data[s])
                  /\ full_data'[s][m]
                        = EntryData(columns[s], ev'.typed, current_user[s], clock)
                  /\ \A i \in DOMAIN full_data[s] :
                        i # m => full_data'[s][i] = full_data[s][i]]_vars

\* C4: delete(targets) by P leaves exactly the previous store without the
\* records whose values are in targets and for which P is authorized, all
\* duplicates of a target together; every other record stays, unchanged and
\* in order; the result is what the file holds.
DeleteRemovesAuthorizedTargets ==
    [][ev'.kind = "delete" =>
          LET s == ev'.s
              u == current_user[s]
              removed(row) ==
                  /\ RowValues(row, columns[s]) \in ev'.targets
                  /\ (u = ADMIN \/ Tenant(row) = PyStr(u))
          IN  /\ full_data'[s] = SelectSeq(full_data[s], LAMBDA row : ~removed(row))
              /\ file' = [exists |-> TRUE, data |-> full_data'[s]]]_vars

\* One selected item emptied a loaded store of two records.
DeleteRemovesAuthorizedTargetsWitness ==
    /\ ev.kind = "delete"
    /\ ops = 1
    /\ hwm[ev.s] = -1
    /\ Cardinality(ev.targets) = 1
    /\ full_data[ev.s] = <<>>
    /\ file.data = <<>>

\* C5: the table shows, in store order, the records that pass the text and
\* project tests and the visibility test: for the administrator the tenant
\* filter is empty or equals the record's Tenant case-insensitively; for
\* another principal P the record's Tenant is P, whatever the tenant filter.
VisibleByRule(row, u, tenant) ==
    IF u = ADMIN
    THEN \/ lower(strip(tenant)) = <<>>
         \/ lower(get(row, TENANT_FIELD, PyStr(<<>>)).s) = lower(strip(tenant))
    ELSE Tenant(row) = PyStr(u)

DisplayedByRule(data, cols, u, search, tenant, project) ==
    LET shown == SelectSeq(data, LAMBDA row :
                    /\ VisibleByRule(row, u, tenant)
                    /\ contains(lower(search), lower(json_dumps(row)))
                    /\ contains(lower(strip(project)),
                                lower(get(row, PROJECT_FIELD, PyStr(<<>>)).s)))
    IN  [i \in DOMAIN shown |-> ItemValues(RowValues(shown[i], cols))]

VisibilityRule ==
    [][ev'.kind = "refresh" =>
          LET s == ev'.s
          IN  tree'[s] = DisplayedByRule(full_data'[s], columns'[s], current_user'[s],
                                         search_var'[s], tenant_filter'[s],
                                         project_filter'[s])]_vars

\* C6: whenever the snapshot after a save fails (no repository, git exiting
\* non-zero, git not runnable), the file has been overwritten with the
\* collection and the commit or delete completes as with a snapshot: the
\* entry window is closed and the table is rebuilt.
SnapshotFailureSwallowed ==
    [][(ev'.kind \in {"save", "delete"} /\ ev'.snap # "committed") =>
          LET s == ev'.s
          IN  /\ file' = [exists |-> TRUE, data |-> full_data'[s]]
              /\ tree'[s] = refresh_table(full_data'[s], columns[s], current_user[s],
                                          search_var[s], tenant_filter[s],
                                          project_filter[s])
              /\ ev'.kind = "save" => Len(popups'[s]) = Len(popups[s]) - 1]_vars

StampOf(row) == StampTime(get(row, LAST_UPDATED_FIELD, PyNone))

\* C7: with a non-decreasing clock, a commit that replaces a record stamps
\* the new record not earlier than the record it replaced, for every record
\* that can be in the store, those loaded from the file included, whatever
\* was typed into the Last Updated field.
StampNeverDecreases ==
    [][(ev'.kind = "save" /\ ev'.match # 0 /\ ev'.auth) =>
          StampOf(full_data'[ev'.s][ev'.match]) >= StampOf(ev'.old)]_vars

\* C7, amended: a commit that replaces a record stamps the new record with
\* the clock reading of the commit, whatever was typed into the Last Updated
\* field; that is not earlier than the replaced record's stamp whenever that
\* stamp was written in this run of the session (by the initial import or by
\* an earlier commit).
StampIsCommitTime ==
    [][(ev'.kind = "save" /\ ev'.match # 0 /\ ev'.auth) =>
          LET s == ev'.s
              new == StampOf(full_data'[s][ev'.match])
              old == StampOf(ev'.old)
          IN  /\ new = clock
              /\ old \in StartClock..hwm[s] => new >= old]_vars

\* A record stamped earlier in the run was replaced at a later clock reading,
\* the form still holding the earlier stamp.
StampIsCommitTimeWitness ==
    /\ ev.kind = "save"
    /\ ev.match # 0
    /\ ev.auth
    /\ StampOf(ev.old) \in StartClock..(clock - 1)
    /\ \E i \in DOMAIN columns[ev.s] :
          /\ columns[ev.s][i] = LAST_UPDATED_FIELD
          /\ ev.typed[i] = strftime(StampOf(ev.old))
    /\ StampOf(full_data[ev.s][ev.match]) = clock

\* C8: with one session and no other writer, after every commit and every
\* delete the file, read back, is the session's collection record for record
\* and in order; a cancelled edit session changes neither the collection nor
\* the file.
PersistedRoundTrip ==
    /\ [](ev.kind \in {"save", "delete"} =>
             LET loaded == json_load(FileText(file))
             IN  file.exists /\ loaded.ok /\ loaded.v = full_data[ev.s])
    /\ [][ev'.kind = "cancel" => (full_data' = full_data /\ file' = file)]_vars

\* A record whose Item is a double quote was committed and is in the file.
PersistedRoundTripWitness ==
    /\ ev.kind = "save"
    /\ ev.auth
    /\ get(Written(full_data[ev.s], ev), ITEM_FIELD, PyNone) = PyStr(<<"\"">>)
    /\ file.data = full_data[ev.s]
    /\ contains(<<"\\", "\"">>, FileText(file))

\* C9: a Creating commit, and an Editing commit whose identity matches no
\* record of the store, appends the new record as the last row and leaves
\* every existing record unchanged; an Editing commit whose first match is a
\* record the principal is not authorized for changes nothing.
StaleIdentityAppends ==
    [][ev'.kind = "save" =>
          LET s == ev'.s
              m == MatchIndex(full_data[s], columns[s], ev'.existing)
          IN  IF m = 0
              THEN full_data'[s]
                      = Append(full_data[s],
                               EntryData(columns[s], ev'.typed, current_user[s], clock))
              ELSE ~Authorized(full_data[s][m], current_user[s]) =>
                      full_data'[s] = full_data[s]]_vars

\* C10: two sessions on one file each rewrite the whole file from their own
\* copy and never read the other's writes, so the file is what the last
\* writer held: a record one session committed is gone from the file after
\* the other session's next save, a record of another tenant than the saving
\* non-administrator included.
LastWriterWins ==
    [][ev'.kind \in {"save", "delete"} =>
          /\ file' = [exists |-> TRUE, data |-> full_data'[ev'.s]]
          /\ \A o \in running \ {ev'.s} : full_data'[o] = full_data[o]]_vars

\* The tenant's session wrote last; a record the administrator's session
\* committed in this run, of another tenant, is in that session's collection
\* and not in the file.
LostUpdate ==
    /\ ev.kind \in {"save", "delete"}
    /\ ev.s = 2
    /\ \E i \in DOMAIN full_data[1] :
          /\ StampOf(full_data[1][i]) \in StartClock..clock
          /\ Tenant(full_data[1][i]) = PyStr(TenantB)
          /\ \A j \in DOMAIN file.data : file.data[j] # full_data[1][i]

=============================================================================
